---- MODULE Spec2Model ----
(***************************************************************************)
(* State-machine model of src/scraper.py: main() runs scrape_site() for    *)
(* every configured site in order, concatenates the returned lists,        *)
(* deduplicates them by url and hands the result to save_outputs().        *)
(*                                                                         *)
(* The newspaper3k library, pandas and the file system are the             *)
(* environment: what a site's front page lists, how the download/parse/nlp *)
(* of one article ends, and whether a file write succeeds are chosen       *)
(* nondeterministically at the step where the code calls them.             *)
(***************************************************************************)
EXTENDS Integers, Sequences, FiniteSets, TLC

(* ------------------------------ bounds --------------------------------- *)

\* Number of entries of NEWS_SITES (6 in the source, scaled down).
NumSites == 2

\* MAX_PER_SITE (40 in the source, scaled down so that truncation happens).
MAX_PER_SITE == 2

\* Longest input of the stand-alone deduplication specification SpecDedup.
MaxDedupLen == 3

\* Latest wall-clock hour of a publish date in SpecNorm (hours are counted
\* from the midnight that starts day 0).
MaxHour == 47

\* A front page may list one article more than MAX_PER_SITE.
MaxDiscovered == MAX_PER_SITE + 1

\* Article urls a front page can list.
URLS == {"u1", "u2", "u3"}

(* --------------------------- configuration ----------------------------- *)

\* NEWS_SITES: the configured sites, identified by their position.
NEWS_SITES == [k \in 1..NumSites |-> k]

(* ----------------------------- environment ----------------------------- *)

\* src.articles after newspaper.build(): an ordered list of distinct urls.
Discoverable ==
    {s \in UNION {[1..n -> URLS] : n \in 0..MaxDiscovered} :
        \A i, j \in DOMAIN s : i # j => s[i] # s[j]}

\* How download()/parse()/nlp() of one article end.  kind "article_exc" is
\* newspaper.article.ArticleException and "other_exc" any other Exception, both
\* raised by download() or parse(); "late_exc" is an Exception raised after
\* nlp(), while the dictionary is built; "ok" is a call that returns.  nlp is
\* "none" when nlp() was not reached, "ok" when it returned, "failed" when it
\* raised.
Outcomes ==
    {[kind |-> "article_exc", title |-> "", text |-> "", nlp |-> "none"],
     [kind |-> "other_exc", title |-> "", text |-> "", nlp |-> "none"]}
    \cup
    [kind : {"late_exc"}, title : {""}, text : {""}, nlp : {"ok", "failed"}]
    \cup
    [kind : {"ok"}, title : {"", "T"}, text : {"", "X"}, nlp : {"ok", "failed"}]

Raises(o) == o.kind \in {"article_exc", "other_exc", "late_exc"}

NoOutcome == [kind |-> "none", title |-> "", text |-> "", nlp |-> "none"]

(* ------------------------------ variables ------------------------------ *)

VARIABLES
    pc,            \* position of main(): which statement runs next
    si,            \* index into NEWS_SITES of the site of the current/next call
    src_articles,  \* scrape_site: src.articles
    articles,      \* scrape_site: src.articles[:max_items]
    ai,            \* scrape_site: position of the for loop in articles
    out,           \* scrape_site: out
    all_rows,      \* main: all_rows
    di,            \* main: position of the dedup loop in all_rows
    seen,          \* main: seen
    deduped,       \* main: deduped
    csv,           \* file <base_name>.csv: "absent", "partial" or "complete"
    jsonl,         \* file <base_name>.jsonl: "absent", "partial" or "complete"
    printed,       \* the [INFO]/[OK] lines of save_outputs printed so far
    report,        \* the counts printed by main: <<total, after dedup>>, or <<>>
    last,          \* history: url and outcome of the latest parse_article call
    slept,         \* history: time.sleep ran since the latest parse_article call
    hist,          \* history: per finished site, discovery outcome and result
    calls,         \* history: the parse_article calls of the run, in order
    pub_date,      \* parse_article: article.publish_date (SpecNorm only)
    pub_date_iso   \* parse_article: pub_date_iso, or "unset" (SpecNorm only)

vars == <<pc, si, src_articles, articles, ai, out, all_rows, di, seen, deduped,
          csv, jsonl, printed, report, last, slept, hist, calls, pub_date,
          pub_date_iso>>

scrapeVars == <<src_articles, articles, ai, out>>
dedupVars == <<di, seen, deduped>>
saveVars == <<csv, jsonl, printed>>
histVars == <<last, slept, hist>>
normVars == <<pub_date, pub_date_iso>>

(* ---------------------------- parse_article ----------------------------- *)

NoData ==
    [title |-> "", url |-> "", text |-> "", source_url |-> 0,
     keywords |-> << >>, summary |-> ""]

\* parse_article that takes the url from the page's canonical link, which a
\* page without one leaves empty.
parse_article_canonical_url(url, site, o) ==
    IF o.kind = "article_exc" THEN [exc |-> "ArticleException", enriched |-> FALSE, data |-> NoData]
    ELSE IF o.kind \in {"other_exc", "late_exc"}
    THEN [exc |-> "Exception", enriched |-> o.kind = "late_exc", data |-> NoData]
    ELSE [exc |-> "none",
          enriched |-> TRUE,
          data |-> [title |-> o.title,
                    url |-> IF o.text = "" THEN "" ELSE url,
                    text |-> o.text,
                    source_url |-> site,
                    keywords |-> IF o.nlp = "ok" THEN <<"k">> ELSE << >>,
                    summary |-> IF o.nlp = "ok" THEN "s" ELSE ""]]

\* parse_article without the try around article.nlp(): its exception leaves
\* the function.
parse_article_nlp_uncaught(url, site, o) ==
    IF o.kind = "article_exc" THEN [exc |-> "ArticleException", enriched |-> FALSE, data |-> NoData]
    ELSE IF o.kind \in {"other_exc", "late_exc"} \/ o.nlp = "failed"
    THEN [exc |-> "Exception", enriched |-> o.kind # "other_exc", data |-> NoData]
    ELSE [exc |-> "none",
          enriched |-> TRUE,
          data |-> [title |-> o.title,
                    url |-> url,
                    text |-> o.text,
                    source_url |-> site,
                    keywords |-> <<"k">>,
                    summary |-> "s"]]

\* parse_article that looks at title and text before it calls article.nlp().
parse_article_filter_first(url, site, o) ==
    IF o.kind = "article_exc" THEN [exc |-> "ArticleException", enriched |-> FALSE, data |-> NoData]
    ELSE IF o.kind = "other_exc"
    THEN [exc |-> "Exception", enriched |-> FALSE, data |-> NoData]
    ELSE IF o.kind = "late_exc"
    THEN [exc |-> "Exception", enriched |-> TRUE, data |-> NoData]
    ELSE [exc |-> "none",
          enriched |-> (o.title # "" \/ o.text # ""),
          data |-> [title |-> o.title,
                    url |-> url,
                    text |-> o.text,
                    source_url |-> site,
                    keywords |-> IF o.nlp = "ok" THEN <<"k">> ELSE << >>,
                    summary |-> IF o.nlp = "ok" THEN "s" ELSE ""]]

\* parse_article(article): exc names the exception that leaves the function
\* ("none": it returns), enriched tells whether article.nlp() was called, and
\* data is the dictionary it returns.  An exception of
\* article.nlp() is caught inside and replaced by keywords [] and summary "".
\* (authors, top_image, movies and the two dates play no part in the control
\* flow of scrape_site, main or save_outputs and are left out of the record.)
parse_article(url, site, o) ==
    IF o.kind = "article_exc" THEN [exc |-> "ArticleException", enriched |-> FALSE, data |-> NoData]
    ELSE IF o.kind \in {"other_exc", "late_exc"}
    THEN [exc |-> "Exception", enriched |-> o.kind = "late_exc", data |-> NoData]
    ELSE [exc |-> "none",
          enriched |-> TRUE,
          data |-> [title |-> o.title,
                    url |-> url,
                    text |-> o.text,
                    source_url |-> site,
                    keywords |-> IF o.nlp = "ok" THEN <<"k">> ELSE << >>,
                    summary |-> IF o.nlp = "ok" THEN "s" ELSE ""]]

NoLast == [url |-> "", o |-> NoOutcome]

\* article.publish_date when it is no datetime (None, or the initial "").
NoDate == [kind |-> "none", wall |-> 0, off |-> 0]

(* ------------------------------- Init ----------------------------------- *)

Init ==
    /\ pc = "main"
    /\ si = 1
    /\ src_articles = << >>
    /\ articles = << >>
    /\ ai = 1
    /\ out = << >>
    /\ all_rows = << >>
    /\ di = 1
    /\ seen = {}
    /\ deduped = << >>
    /\ csv = "absent"
    /\ jsonl = "absent"
    /\ printed = {}
    /\ report = << >>
    /\ last = NoLast
    /\ slept = FALSE
    /\ hist = << >>
    /\ calls = << >>
    /\ pub_date = NoDate
    /\ pub_date_iso = [kind |-> "unset", day |-> 0, hour |-> 0, off |-> 0]

(* ------------------------------ scrape_site ----------------------------- *)

\* Caught without the second handler (except Exception).
CaughtOnlyArticleException(exc) == exc = "ArticleException"

\* The exceptions the try of the for loop catches: ArticleException in the
\* first handler, every other Exception in the second.
Caught(exc) == exc \in {"ArticleException", "Exception"}

\* NoContent that tests for None instead of emptiness: parse_article returns
\* strings, so it never holds.
NoContentIsNone(data) == FALSE

\* The filter of the for loop: not data["title"] and not data["text"].
NoContent(data) == data.title = "" /\ data.text = ""

\* "return out", and in main "all_rows.extend(rows)" and the next iteration.
ReturnOut(d) ==
    /\ all_rows' = all_rows \o out
    /\ hist' = Append(hist, [disc |-> d, attempts |-> ai - 1, rows |-> out])
    /\ si' = si + 1
    /\ pc' = "main"
    /\ src_articles' = << >>
    /\ articles' = << >>
    /\ ai' = 1
    /\ out' = << >>
    /\ last' = NoLast
    /\ slept' = FALSE
    /\ UNCHANGED <<calls, normVars>>
    /\ UNCHANGED <<dedupVars, saveVars, report>>

\* main: "for site in NEWS_SITES: rows = scrape_site(site, MAX_PER_SITE)",
\* up to "out = []" in scrape_site.
CallScrapeSite ==
    /\ pc = "main"
    /\ si <= NumSites
    /\ pc' = "build"
    /\ out' = << >>
    /\ ai' = 1
    /\ UNCHANGED <<calls, normVars>>
    /\ UNCHANGED <<si, src_articles, articles, all_rows, dedupVars, saveVars,
                   report, histVars>>

\* BuildFails without the try around build_source: the exception leaves main.
BuildFailsUncaught ==
    /\ pc = "build"
    /\ pc' = "raised"
    /\ UNCHANGED <<calls, normVars>>
    /\ UNCHANGED <<si, scrapeVars, all_rows, dedupVars, saveVars, report,
                   histVars>>

\* build_source(url) raises: warn and return the empty out.
BuildFails ==
    /\ pc = "build"
    /\ ReturnOut("fail")

\* build_source(url) returns a source without articles: return the empty out.
BuildNoArticles ==
    /\ pc = "build"
    /\ ReturnOut("empty")

\* BuildArticles without the slice: every listed article is kept.
BuildArticlesAll ==
    /\ pc = "build"
    /\ \E found \in Discoverable \ {<< >>} :
          /\ src_articles' = found
          /\ articles' = found
    /\ ai' = 1
    /\ pc' = "loop"
    /\ UNCHANGED <<calls, normVars>>
    /\ UNCHANGED <<si, out, all_rows, dedupVars, saveVars, report, histVars>>

\* build_source(url) returns a source with articles; keep the first max_items.
BuildArticles ==
    /\ pc = "build"
    /\ \E found \in Discoverable \ {<< >>} :
          /\ src_articles' = found
          /\ articles' = SubSeq(found, 1,
                                IF Len(found) < MAX_PER_SITE THEN Len(found)
                                ELSE MAX_PER_SITE)
    /\ ai' = 1
    /\ pc' = "loop"
    /\ UNCHANGED <<calls, normVars>>
    /\ UNCHANGED <<si, out, all_rows, dedupVars, saveVars, report, histVars>>

\* Extract that appends an accepted record to all_rows as well, at once.
ExtractShares ==
    /\ pc = "loop"
    /\ ai <= Len(articles)
    /\ \E o \in Outcomes :
          LET r == parse_article(articles[ai], NEWS_SITES[si], o) IN
          /\ last' = [url |-> articles[ai], o |-> o]
          /\ slept' = FALSE
          /\ calls' = Append(calls, [site |-> NEWS_SITES[si],
                                     url |-> articles[ai],
                                     nlp |-> r.enriched,
                                     res |-> IF r.exc # "none" THEN "failed"
                                             ELSE IF NoContent(r.data) THEN "empty"
                                             ELSE "accepted"])
          /\ IF r.exc # "none"
             THEN IF Caught(r.exc)
                  THEN pc' = "loop" /\ ai' = ai + 1 /\ out' = out
                       /\ all_rows' = all_rows
                  ELSE pc' = "raised" /\ ai' = ai /\ out' = out
                       /\ all_rows' = all_rows
             ELSE IF NoContent(r.data)
                  THEN pc' = "loop" /\ ai' = ai + 1 /\ out' = out
                       /\ all_rows' = all_rows
                  ELSE pc' = "sleep" /\ ai' = ai /\ out' = Append(out, r.data)
                       /\ all_rows' = Append(all_rows, r.data)
    /\ UNCHANGED normVars
    /\ UNCHANGED <<si, src_articles, articles, dedupVars, saveVars, report, hist>>

\* Extract that puts an accepted record at the front of out.
ExtractPrepends ==
    /\ pc = "loop"
    /\ ai <= Len(articles)
    /\ \E o \in Outcomes :
          LET r == parse_article(articles[ai], NEWS_SITES[si], o) IN
          /\ last' = [url |-> articles[ai], o |-> o]
          /\ slept' = FALSE
          /\ calls' = Append(calls, [site |-> NEWS_SITES[si],
                                     url |-> articles[ai],
                                     nlp |-> r.enriched,
                                     res |-> IF r.exc # "none" THEN "failed"
                                             ELSE IF NoContent(r.data) THEN "empty"
                                             ELSE "accepted"])
          /\ IF r.exc # "none"
             THEN IF Caught(r.exc)
                  THEN pc' = "loop" /\ ai' = ai + 1 /\ out' = out
                  ELSE pc' = "raised" /\ ai' = ai /\ out' = out
             ELSE IF NoContent(r.data)
                  THEN pc' = "loop" /\ ai' = ai + 1 /\ out' = out
                  ELSE pc' = "sleep" /\ ai' = ai /\ out' = <<r.data>> \o out
    /\ UNCHANGED normVars
    /\ UNCHANGED <<si, src_articles, articles, all_rows, dedupVars, saveVars,
                   report, hist>>

\* One iteration of the for loop up to time.sleep: parse_article(art), the
\* filter, out.append(data); or one of the two except clauses.
Extract ==
    /\ pc = "loop"
    /\ ai <= Len(articles)
    /\ \E o \in Outcomes :
          LET r == parse_article(articles[ai], NEWS_SITES[si], o) IN
          /\ last' = [url |-> articles[ai], o |-> o]
          /\ slept' = FALSE
          /\ calls' = Append(calls, [site |-> NEWS_SITES[si],
                                     url |-> articles[ai],
                                     nlp |-> r.enriched,
                                     res |-> IF r.exc # "none" THEN "failed"
                                             ELSE IF NoContent(r.data) THEN "empty"
                                             ELSE "accepted"])
          /\ IF r.exc # "none"
             THEN IF Caught(r.exc)
                  THEN pc' = "loop" /\ ai' = ai + 1 /\ out' = out
                  ELSE pc' = "raised" /\ ai' = ai /\ out' = out
             ELSE IF NoContent(r.data)
                  THEN pc' = "loop" /\ ai' = ai + 1 /\ out' = out
                  ELSE pc' = "sleep" /\ ai' = ai /\ out' = Append(out, r.data)
    /\ UNCHANGED normVars
    /\ UNCHANGED <<si, src_articles, articles, all_rows, dedupVars, saveVars,
                   report, hist>>

\* Sleep after which the loop does not move on: the candidate is taken again.
SleepRepeats ==
    /\ pc = "sleep"
    /\ slept' = TRUE
    /\ ai' = ai
    /\ pc' = "loop"
    /\ UNCHANGED <<calls, normVars>>
    /\ UNCHANGED <<si, src_articles, articles, out, all_rows, dedupVars,
                   saveVars, report, last, hist>>

\* time.sleep(SLEEP_BETWEEN), the last statement of the try block.
Sleep ==
    /\ pc = "sleep"
    /\ slept' = TRUE
    /\ ai' = ai + 1
    /\ pc' = "loop"
    /\ UNCHANGED <<calls, normVars>>
    /\ UNCHANGED <<si, src_articles, articles, out, all_rows, dedupVars,
                   saveVars, report, last, hist>>

\* The for loop is exhausted: return out.
LoopDone ==
    /\ pc = "loop"
    /\ ai > Len(articles)
    /\ ReturnOut("ok")

(* --------------------------------- main --------------------------------- *)

\* DedupBody that never records a url in seen.
DedupBodyNoAdd(sn, dd, r) ==
    IF r.url \in sn
    THEN [seen |-> sn, deduped |-> dd]
    ELSE [seen |-> sn, deduped |-> Append(dd, r)]

\* DedupBody that lets a later row replace the kept one (last seen wins).
DedupBodyLastWins(sn, dd, r) ==
    IF r.url \in sn
    THEN [seen |-> sn,
          deduped |-> [i \in DOMAIN dd |-> IF dd[i].url = r.url THEN r ELSE dd[i]]]
    ELSE [seen |-> sn \cup {r.url}, deduped |-> Append(dd, r)]

\* DedupBody that forgets a url when it drops a duplicate of it.
DedupBodyForget(sn, dd, r) ==
    IF r.url \in sn
    THEN [seen |-> sn \ {r.url}, deduped |-> dd]
    ELSE [seen |-> sn \cup {r.url}, deduped |-> Append(dd, r)]

\* The body of "for r in all_rows", applied to seen (sn) and deduped (dd).
DedupBody(sn, dd, r) ==
    IF r.url \in sn
    THEN [seen |-> sn, deduped |-> dd]
    ELSE [seen |-> sn \cup {r.url}, deduped |-> Append(dd, r)]

\* DedupInit with a seen set that already holds the url of every candidate
\* that was passed over for having neither title nor text.
DedupInitSeenSkipped ==
    /\ pc = "main"
    /\ si > NumSites
    /\ seen' = {calls[i].url : i \in {j \in DOMAIN calls : calls[j].res = "empty"}}
    /\ deduped' = << >>
    /\ di' = 1
    /\ pc' = "dedup"
    /\ UNCHANGED <<calls, normVars>>
    /\ UNCHANGED <<si, scrapeVars, all_rows, saveVars, report, histVars>>

\* The sites are exhausted: seen = set(), deduped = [].
DedupInit ==
    /\ pc = "main"
    /\ si > NumSites
    /\ seen' = {}
    /\ deduped' = << >>
    /\ di' = 1
    /\ pc' = "dedup"
    /\ UNCHANGED <<calls, normVars>>
    /\ UNCHANGED <<si, scrapeVars, all_rows, saveVars, report, histVars>>

\* One iteration of "for r in all_rows", at position p of main.
DedupStepAt(p) ==
    /\ pc = p
    /\ di <= Len(all_rows)
    /\ LET b == DedupBody(seen, deduped, all_rows[di]) IN
          /\ seen' = b.seen
          /\ deduped' = b.deduped
    /\ di' = di + 1
    /\ UNCHANGED <<calls, normVars>>
    /\ UNCHANGED <<pc, si, scrapeVars, all_rows, saveVars, report, histVars>>

DedupStep == DedupStepAt("dedup")

\* Report that prints the length of deduped for both counts.
ReportDedupedTwice ==
    /\ pc = "dedup"
    /\ di > Len(all_rows)
    /\ report' = <<Len(deduped), Len(deduped)>>
    /\ pc' = "save"
    /\ UNCHANGED <<calls, normVars>>
    /\ UNCHANGED <<si, scrapeVars, all_rows, dedupVars, saveVars, histVars>>

\* print(Total coletado | Apos dedup), then the call of save_outputs.
Report ==
    /\ pc = "dedup"
    /\ di > Len(all_rows)
    /\ report' = <<Len(all_rows), Len(deduped)>>
    /\ pc' = "save"
    /\ UNCHANGED <<calls, normVars>>
    /\ UNCHANGED <<si, scrapeVars, all_rows, dedupVars, saveVars, histVars>>

(* ------------------------------ save_outputs ---------------------------- *)

\* Falsy that never holds (the early return is missing).
FalsyNever(rows) == FALSE

\* "not rows"
Falsy(rows) == rows = << >>

\* Nothing to save: print and return.
SaveNothing ==
    /\ pc = "save"
    /\ Falsy(deduped)
    /\ printed' = printed \cup {"nada para salvar"}
    /\ pc' = "done"
    /\ UNCHANGED <<calls, normVars>>
    /\ UNCHANGED <<si, scrapeVars, all_rows, dedupVars, csv, jsonl, report,
                   histVars>>

\* WriteCsv that returns after the CSV file and skips the JSONL file.
WriteCsvOnly ==
    /\ pc = "save"
    /\ deduped # << >>
    /\ \E res \in {"complete", "absent", "partial"} :
          /\ csv' = res
          /\ IF res = "complete"
             THEN printed' = printed \cup {"csv salvo"} /\ pc' = "done"
             ELSE printed' = printed /\ pc' = "raised"
    /\ UNCHANGED <<calls, normVars>>
    /\ UNCHANGED <<si, scrapeVars, all_rows, dedupVars, jsonl, report, histVars>>

\* df.to_csv(csv_path): the file is written ("complete"), cannot be created
\* ("absent") or is left unfinished ("partial"); a failure is an exception
\* that nothing catches.
WriteCsv ==
    /\ pc = "save"
    /\ ~Falsy(deduped)
    /\ \E res \in {"complete", "absent", "partial"} :
          /\ csv' = res
          /\ IF res = "complete"
             THEN printed' = printed \cup {"csv salvo"} /\ pc' = "jsonl"
             ELSE printed' = printed /\ pc' = "raised"
    /\ UNCHANGED <<calls, normVars>>
    /\ UNCHANGED <<si, scrapeVars, all_rows, dedupVars, jsonl, report, histVars>>

\* open(jsonl_path, "w") and the writes of the rows, with the same outcomes.
WriteJsonl ==
    /\ pc = "jsonl"
    /\ \E res \in {"complete", "absent", "partial"} :
          /\ jsonl' = res
          /\ IF res = "complete"
             THEN printed' = printed \cup {"jsonl salvo"} /\ pc' = "done"
             ELSE printed' = printed /\ pc' = "raised"
    /\ UNCHANGED <<calls, normVars>>
    /\ UNCHANGED <<si, scrapeVars, all_rows, dedupVars, csv, report, histVars>>

(* ----------------------------- specification ---------------------------- *)

Next ==
    \/ CallScrapeSite
    \/ BuildFails
    \/ BuildNoArticles
    \/ BuildArticles
    \/ Extract
    \/ Sleep
    \/ LoopDone
    \/ DedupInit
    \/ DedupStep
    \/ Report
    \/ SaveNothing
    \/ WriteCsv
    \/ WriteJsonl

Spec == Init /\ [][Next]_vars

\* The interpreter runs the next statement whenever there is one: no step of
\* the single-threaded program is postponed forever.
SpecLive == Init /\ [][Next]_vars /\ WF_vars(Next)

(* ----------------------- publish-date normalisation -------------------- *)

\* A datetime: kind "naive" (tzinfo is None) or "aware", wall its wall-clock
\* reading in hours, off its UTC offset in hours (0 and unused when naive).
PubDates ==
    {NoDate}
    \cup [kind : {"naive"}, wall : 0..MaxHour, off : {0}]
    \cup [kind : {"aware"}, wall : 0..MaxHour, off : {-5, 0, 2}]

\* The hours (UTC) during which the target zone is on daylight-saving time.
DstHours == 27..38

\* tz.gettz(TARGET_TZ): the UTC offset of America/Sao_Paulo at an instant,
\* -3 in standard time and -2 in the daylight-saving periods of the zone.
TargetOffset(instant) == IF instant \in DstHours THEN -2 ELSE -3

\* The instant (hours, UTC) an aware datetime denotes.
InstantOf(d) == d.wall - d.off

\* replace that stamps a naive datetime with the target zone instead of UTC.
replace_tzinfo_target(d) ==
    [kind |-> "aware", wall |-> d.wall, off |-> TargetOffset(d.wall + 3)]

\* pub_date.replace(tzinfo=timezone.utc): same wall clock, offset 0.
replace_tzinfo_utc(d) == [kind |-> "aware", wall |-> d.wall, off |-> 0]

\* pub_date.astimezone(tz.gettz(TARGET_TZ)): same instant, target offset.
astimezone(d) ==
    LET off == TargetOffset(InstantOf(d)) IN
    [kind |-> "aware", wall |-> InstantOf(d) + off, off |-> off]

\* pub_date.isoformat(): date, time of day and offset, as the string has them.
isoformat(d) ==
    [kind |-> "iso", day |-> d.wall \div 24, hour |-> d.wall % 24, off |-> d.off]

NullIso == [kind |-> "null", day |-> 0, hour |-> 0, off |-> 0]
UnsetIso == [kind |-> "unset", day |-> 0, hour |-> 0, off |-> 0]

\* The "Publicacao" block of parse_article.
normalize(d) ==
    IF d.kind = "none" THEN NullIso
    ELSE isoformat(astimezone(IF d.kind = "naive" THEN replace_tzinfo_utc(d)
                              ELSE d))

\* parse_article entered at "pub_date = article.publish_date".
InitNorm ==
    /\ pc = "norm"
    /\ pub_date \in PubDates
    /\ pub_date_iso = UnsetIso
    /\ si = 1
    /\ src_articles = << >>
    /\ articles = << >>
    /\ ai = 1
    /\ out = << >>
    /\ all_rows = << >>
    /\ di = 1
    /\ seen = {}
    /\ deduped = << >>
    /\ csv = "absent"
    /\ jsonl = "absent"
    /\ printed = {}
    /\ report = << >>
    /\ last = NoLast
    /\ slept = FALSE
    /\ hist = << >>
    /\ calls = << >>

Normalize ==
    /\ pc = "norm"
    /\ pub_date_iso' = normalize(pub_date)
    /\ pc' = "normed"
    /\ UNCHANGED <<si, scrapeVars, all_rows, dedupVars, saveVars, report,
                   histVars, calls, pub_date>>

NextNorm == Normalize

SpecNorm == InitNorm /\ [][NextNorm]_vars

(* ------------------- stand-alone deduplication run --------------------- *)

\* Rows as parse_article builds them, for the inputs of the dedup loop.
DedupRows ==
    {parse_article(u, k, [kind |-> "ok", title |-> "T", text |-> "X",
                          nlp |-> "ok"]).data : u \in URLS, k \in 1..NumSites}

DedupInputs == UNION {[1..n -> DedupRows] : n \in 0..MaxDedupLen}

\* main entered at "seen = set()" with an arbitrary all_rows.
InitDedup ==
    /\ pc = "dedup"
    /\ si = NumSites + 1
    /\ all_rows \in DedupInputs
    /\ src_articles = << >>
    /\ articles = << >>
    /\ ai = 1
    /\ out = << >>
    /\ di = 1
    /\ seen = {}
    /\ deduped = << >>
    /\ csv = "absent"
    /\ jsonl = "absent"
    /\ printed = {}
    /\ report = << >>
    /\ last = NoLast
    /\ slept = FALSE
    /\ hist = << >>
    /\ calls = << >>
    /\ pub_date = NoDate
    /\ pub_date_iso = [kind |-> "unset", day |-> 0, hour |-> 0, off |-> 0]

\* The first pass is over: print the counts, then run the same loop on its
\* output (all_rows now holds the first pass's deduped).
Rerun ==
    /\ pc = "dedup"
    /\ di > Len(all_rows)
    /\ report' = <<Len(all_rows), Len(deduped)>>
    /\ all_rows' = deduped
    /\ seen' = {}
    /\ deduped' = << >>
    /\ di' = 1
    /\ pc' = "dedup2"
    /\ UNCHANGED <<calls, normVars>>
    /\ UNCHANGED <<si, scrapeVars, saveVars, histVars>>

DedupStepAgain == DedupStepAt("dedup2")

NextDedup ==
    \/ DedupStep
    \/ Rerun
    \/ DedupStepAgain

SpecDedup == InitDedup /\ [][NextDedup]_vars

(* ------------------------ operators of the claims ----------------------- *)

\* The rows of s whose url occurs at no earlier position, in the order of s.
RECURSIVE FirstOccFrom(_, _)
FirstOccFrom(s, i) ==
    IF i > Len(s) THEN << >>
    ELSE (IF \A j \in 1..(i - 1) : s[j].url # s[i].url THEN <<s[i]>> ELSE << >>)
         \o FirstOccFrom(s, i + 1)

FirstOcc(s) == FirstOccFrom(s, 1)

\* The result lists of the finished sites k..Len(h) that satisfy keep, in
\* configured order.
RECURSIVE ConcatFrom(_, _, _)
ConcatFrom(h, k, keep) ==
    IF k > Len(h) THEN << >>
    ELSE (IF h[k].disc \in keep THEN h[k].rows ELSE << >>)
         \o ConcatFrom(h, k + 1, keep)

AllDisc == {"fail", "empty", "ok"}

Urls(s) == [i \in DOMAIN s |-> s[i].url]

\* The dedup loop of main has run to its end.
AfterDedup == pc \in {"save", "jsonl", "done", "raised"}

\* A parse_article call has just ended (nothing ran since).
JustExtracted == last # NoLast /\ ~slept /\ pc \in {"loop", "sleep"}

(* -------------------------------- claims -------------------------------- *)

\* C1: no two records of the deduplicated list (the ResultSet handed to
\* save_outputs) have the same url, whatever the sites listed and however
\* each candidate ended.
C1_NoDuplicateUrl ==
    \A i, j \in DOMAIN deduped : i # j => deduped[i].url # deduped[j].url

\* C1 witness: the writer is given two records after a duplicate was dropped.
C1_Witness ==
    /\ pc = "save"
    /\ Len(deduped) >= 2
    /\ Len(all_rows) > Len(deduped)

\* C2: the ResultSet is the first occurrence of each url in the concatenation
\* of the per-site result lists (sites in configured order, records in
\* discovery order); a url accepted on several sites keeps the record of the
\* earliest site.
C2_FirstSeenWins ==
    /\ all_rows = ConcatFrom(hist, 1, AllDisc)
    /\ AfterDedup =>
         /\ deduped = FirstOcc(ConcatFrom(hist, 1, AllDisc))
         /\ \A i \in DOMAIN deduped :
              \A k \in DOMAIN hist :
                 (\E m \in DOMAIN hist[k].rows : hist[k].rows[m].url = deduped[i].url)
                    => deduped[i].source_url <= NEWS_SITES[k]

\* C2 witness: site 1 gave [u1, u2], site 2 gave [u2, u3]; the ResultSet is
\* [u1, u2 of site 1, u3].
C2_Witness ==
    /\ pc = "done"
    /\ Len(hist) = 2
    /\ Urls(hist[1].rows) = <<"u1", "u2">>
    /\ Urls(hist[2].rows) = <<"u2", "u3">>
    /\ Urls(deduped) = <<"u1", "u2", "u3">>
    /\ deduped[2].source_url = 1

\* C3: every record of out, all_rows and deduped has a non-empty title or a
\* non-empty text, and a parse that returns both empty appends nothing.
C3_FilterInvariant ==
    /\ \A i \in DOMAIN out : out[i].title # "" \/ out[i].text # ""
    /\ \A i \in DOMAIN all_rows : all_rows[i].title # "" \/ all_rows[i].text # ""
    /\ \A i \in DOMAIN deduped : deduped[i].title # "" \/ deduped[i].text # ""
    /\ \A k \in DOMAIN hist : \A i \in DOMAIN hist[k].rows :
          hist[k].rows[i].title # "" \/ hist[k].rows[i].text # ""
    /\ (JustExtracted /\ last.o.kind = "ok" /\ last.o.title = "" /\ last.o.text = "")
          => (pc = "loop" /\ \A i \in DOMAIN out : out[i].url # last.url)

\* C3 witness: a candidate parsed with empty title and empty text was passed
\* over after an earlier candidate of the site was accepted.
C3_Witness ==
    /\ JustExtracted
    /\ last.o.kind = "ok" /\ last.o.title = "" /\ last.o.text = ""
    /\ Len(out) = 1
    /\ ai = 3

\* C4: an exception while extracting candidate i appends nothing, leaves the
\* site's accepted records as they are and moves the loop to candidate i+1;
\* the run is stopped by nothing but a failed write, after every site has
\* been processed.
C4_FailureIsSkip ==
    /\ [][(pc = "loop" /\ ai <= Len(articles) /\ Raises(last'.o))
            => (/\ out' = out
                /\ all_rows' = all_rows
                /\ ai' = ai + 1
                /\ si' = si
                /\ pc' = "loop")]_vars
    /\ [](pc \in {"dedup", "save", "jsonl", "done", "raised"}
            => (Len(hist) = NumSites /\ si = NumSites + 1))

\* C4 witness: the second candidate of the first site failed, the record of
\* the first one is still there and the loop is at the third position.
C4_Witness ==
    /\ JustExtracted
    /\ Raises(last.o)
    /\ pc = "loop"
    /\ si = 1
    /\ ai = 3
    /\ Len(out) = 1

\* C5: a site whose discovery fails or finds nothing returns no record and
\* attempts no extraction, and the run goes on: the ResultSet is the one
\* computed from the other sites alone.
C5_EmptySiteIsolated ==
    /\ \A k \in DOMAIN hist :
          hist[k].disc \in {"fail", "empty"}
             => (hist[k].rows = << >> /\ hist[k].attempts = 0)
    /\ all_rows = ConcatFrom(hist, 1, {"ok"})
    /\ AfterDedup =>
         (Len(hist) = NumSites /\ deduped = FirstOcc(ConcatFrom(hist, 1, {"ok"})))

\* C5 witness: the discovery of a site failed, a later site was processed
\* and the run ended with records.
C5_Witness ==
    /\ pc = "done"
    /\ deduped # << >>
    /\ \E k \in DOMAIN hist : hist[k].disc = "fail" /\ k < Len(hist)

\* C6: between two consecutive extraction attempts of a site there is a
\* delay, whether the earlier attempt was accepted, skipped or failed: when
\* the loop is about to extract a candidate after the first, time.sleep has
\* run since the previous parse_article call.
C6_DelayAfterEveryAttempt ==
    (pc = "loop" /\ ai <= Len(articles) /\ ai > 1) => slept

\* C7 as claimed: in every terminal state, also after a failed write, both
\* files exist or neither does.
C7_BothOrNeither ==
    pc \in {"done", "raised"} => ((csv = "absent") <=> (jsonl = "absent"))

\* C7 as amended: a run that ends without a failed write has produced both
\* files or neither; the line-delimited file is never there without the
\* complete tabular file (the reverse happens when the second write fails).
C7_BothOrNeitherUnlessWriteFails ==
    /\ pc = "done" =>
         \/ csv = "complete" /\ jsonl = "complete"
         \/ csv = "absent" /\ jsonl = "absent"
    /\ jsonl # "absent" => csv = "complete"

\* C7 witness: the run ended after writing both files.
C7_Witness ==
    /\ pc = "done"
    /\ csv = "complete"
    /\ jsonl = "complete"
    /\ deduped # << >>

\* C8: with an empty ResultSet save_outputs writes nothing: no file exists
\* and the run ends having printed that there is nothing to save.
C8_EmptyMeansNoWrite ==
    /\ deduped = << >> => (csv = "absent" /\ jsonl = "absent")
    /\ (pc \in {"jsonl", "done", "raised"} /\ deduped = << >>)
          => (pc = "done" /\ printed = {"nada para salvar"})
    /\ "nada para salvar" \in printed => (deduped = << >> /\ pc = "done")

\* C8 witness: candidates were attempted, none was accepted, and the run
\* ended without a file.
C8_Witness ==
    /\ pc = "done"
    /\ deduped = << >>
    /\ \E k \in DOMAIN hist : hist[k].attempts > 0
    /\ report = <<0, 0>>

\* C9: a failure of article.nlp() does not leave parse_article: a candidate
\* parsed with a title or a text is accepted, and its record has keywords []
\* and summary "" and the other fields as extracted.
C9_EnrichmentFailureDegrades ==
    (JustExtracted /\ last.o.nlp = "failed" /\ (last.o.title # "" \/ last.o.text # ""))
       => /\ pc = "sleep"
          /\ out # << >>
          /\ out[Len(out)] = [title |-> last.o.title,
                              url |-> last.url,
                              text |-> last.o.text,
                              source_url |-> NEWS_SITES[si],
                              keywords |-> << >>,
                              summary |-> ""]

\* C9 witness: nlp() failed for a candidate with a title and no text, and the
\* candidate was appended.
C9_Witness ==
    /\ pc = "sleep"
    /\ last.o.nlp = "failed"
    /\ last.o.title # ""
    /\ last.o.text = ""
    /\ out # << >>
    /\ out[Len(out)].url = last.url

\* C10: the dedup loop run on its own output returns that output unchanged,
\* and its output is a function of its input alone (the first occurrences,
\* in order).
C10_DedupIdempotent ==
    /\ (pc = "dedup2" /\ di > Len(all_rows)) => deduped = all_rows
    /\ (pc \in {"dedup", "dedup2"} /\ di > Len(all_rows))
          => deduped = FirstOcc(all_rows)

\* C10 witness: the first pass dropped a duplicate and kept two rows, and the
\* second pass is over.
C10_Witness ==
    /\ pc = "dedup2"
    /\ di > Len(all_rows)
    /\ Len(report) = 2
    /\ report[1] > report[2]
    /\ Len(deduped) >= 2

InstantOfIso(iso) == iso.day * 24 + iso.hour - iso.off

\* C12: a naive publish date is read as UTC and converted to the target
\* zone, an aware one is converted directly, in both cases to the same
\* instant written with the target zone's offset; no publish date gives null.
C12_NormalizeKeepsInstant ==
    pc = "normed" =>
       /\ pub_date.kind = "none" => pub_date_iso = NullIso
       /\ pub_date.kind = "naive" =>
            /\ pub_date_iso.kind = "iso"
            /\ InstantOfIso(pub_date_iso) = pub_date.wall
            /\ pub_date_iso.off = TargetOffset(pub_date.wall)
       /\ pub_date.kind = "aware" =>
            /\ pub_date_iso.kind = "iso"
            /\ InstantOfIso(pub_date_iso) = pub_date.wall - pub_date.off
            /\ pub_date_iso.off = TargetOffset(pub_date.wall - pub_date.off)
       /\ pub_date_iso.kind = "iso" => pub_date_iso.hour \in 0..23

\* C12 witness: the naive date day 0, 10:00 became day 0, 07:00 at offset -3.
C12_Witness ==
    /\ pc = "normed"
    /\ pub_date = [kind |-> "naive", wall |-> 10, off |-> 0]
    /\ pub_date_iso = [kind |-> "iso", day |-> 0, hour |-> 7, off |-> -3]

\* The parse_article calls made for site k, in order.
CallsOf(k) == SelectSeq(calls, LAMBDA c : c.site = k)

\* C13 as claimed: within one run parse_article is called at most once per
\* url, also for a url that several sites list.
C13_OncePerUrl ==
    \A i, j \in DOMAIN calls : i # j => calls[i].url # calls[j].url

\* C13 as amended: within one site no candidate is taken twice (nothing is
\* retried), so a url is extracted at most once per site and at most as many
\* times as there are sites; the calls of the current site are the candidates
\* before the loop position, in order.
C13_OncePerUrlPerSite ==
    /\ \A i, j \in DOMAIN calls :
          (i # j /\ calls[i].site = calls[j].site) => calls[i].url # calls[j].url
    /\ \A u \in URLS :
          Cardinality({i \in DOMAIN calls : calls[i].url = u}) <= NumSites
    /\ pc = "loop" =>
          Urls(CallsOf(NEWS_SITES[si])) = SubSeq(articles, 1, ai - 1)
    /\ pc = "sleep" =>
          Urls(CallsOf(NEWS_SITES[si])) = SubSeq(articles, 1, ai)

\* C13 witness: the run ended after the same url was extracted for two sites,
\* the first time with a failure.
C13_Witness ==
    /\ pc = "done"
    /\ \E i, j \in DOMAIN calls :
          /\ i < j
          /\ calls[i].url = calls[j].url
          /\ calls[i].site # calls[j].site
          /\ calls[i].res = "failed"

\* C14 as claimed: article.nlp() is called only for a candidate whose
\* extraction succeeded with a title or a text, never for one that failed or
\* has neither.
C14_EnrichOnlyUsable ==
    \A i \in DOMAIN calls : calls[i].nlp => calls[i].res = "accepted"

\* C14 as amended: article.nlp() is called for every candidate whose download
\* and parse completed, before the filter, so also for one with neither title
\* nor text; it is not called when download or parse raised.
C14_EnrichAfterParse ==
    /\ \A i \in DOMAIN calls : calls[i].res \in {"accepted", "empty"} => calls[i].nlp
    /\ (JustExtracted /\ last.o.kind \in {"article_exc", "other_exc"})
          => ~calls[Len(calls)].nlp
    /\ (JustExtracted /\ last.o.kind \in {"ok", "late_exc"})
          => calls[Len(calls)].nlp

\* C14 witness: nlp() ran and failed on a candidate with neither title nor
\* text, which was then passed over.
C14_Witness ==
    /\ JustExtracted
    /\ pc = "loop"
    /\ last.o.kind = "ok" /\ last.o.title = "" /\ last.o.text = ""
    /\ last.o.nlp = "failed"
    /\ calls[Len(calls)].nlp
    /\ calls[Len(calls)].res = "empty"

\* C15: for every site only the first MAX_PER_SITE listed candidates are
\* attempted: the loop runs over that prefix of the list, neither the number
\* of parse_article calls of a site nor the length of its result exceeds
\* MAX_PER_SITE, and a candidate listed later is never passed to parse_article.
C15_AtMostMaxItems ==
    /\ Len(articles) <= MAX_PER_SITE
    /\ Len(out) <= MAX_PER_SITE
    /\ \A k \in DOMAIN hist :
          hist[k].attempts <= MAX_PER_SITE /\ Len(hist[k].rows) <= MAX_PER_SITE
    /\ \A k \in 1..NumSites : Len(CallsOf(NEWS_SITES[k])) <= MAX_PER_SITE
    /\ pc \in {"loop", "sleep"} =>
          /\ Len(articles) <= Len(src_articles)
          /\ articles = SubSeq(src_articles, 1, Len(articles))
          /\ \A j \in (MAX_PER_SITE + 1)..Len(src_articles) :
                \A i \in DOMAIN calls :
                   calls[i].site = NEWS_SITES[si] => calls[i].url # src_articles[j]

\* C15 witness: the front page listed more than MAX_PER_SITE articles, the
\* loop is over and every attempted candidate was accepted.
C15_Witness ==
    /\ pc = "loop"
    /\ Len(src_articles) > MAX_PER_SITE
    /\ ai > Len(articles)
    /\ Len(out) = MAX_PER_SITE
    /\ Len(CallsOf(NEWS_SITES[si])) = MAX_PER_SITE

\* The urls of the calls of site k that ended with an appended record.
AcceptedOf(k) == Urls(SelectSeq(CallsOf(k), LAMBDA c : c.res = "accepted"))

\* The position of url u in the list s (0 when it is not there).
PosIn(s, u) == IF \E i \in DOMAIN s : s[i] = u
               THEN CHOOSE i \in DOMAIN s : s[i] = u
               ELSE 0

\* C16: the list a site returns holds exactly its accepted candidates, each
\* once, in the order in which the front page listed them; a skipped or
\* failed candidate leaves no entry.
C16_ResultIsAcceptedInOrder ==
    /\ \A k \in DOMAIN hist :
          /\ Urls(hist[k].rows) = AcceptedOf(NEWS_SITES[k])
          /\ \A i \in DOMAIN hist[k].rows : hist[k].rows[i].source_url = NEWS_SITES[k]
    /\ pc \in {"loop", "sleep"} =>
          /\ Urls(out) = AcceptedOf(NEWS_SITES[si])
          /\ \A i, j \in DOMAIN out :
                i < j => /\ out[i].url # out[j].url
                         /\ PosIn(articles, out[i].url) > 0
                         /\ PosIn(articles, out[i].url) < PosIn(articles, out[j].url)
          /\ \A i \in DOMAIN calls :
                (calls[i].site = NEWS_SITES[si] /\ calls[i].res # "accepted")
                   => \A m \in DOMAIN out : out[m].url # calls[i].url

\* C16 witness: the first site returned both its candidates, the second one
\* only the second of its two, and the run ended.
C16_Witness ==
    /\ pc = "done"
    /\ Len(hist) >= 2
    /\ Len(hist[1].rows) = 2
    /\ hist[2].attempts = 2
    /\ Len(hist[2].rows) = 1
    /\ CallsOf(NEWS_SITES[2])[1].res # "accepted"

\* C17: the sites are processed one after the other in configured order: a
\* site's pipeline starts only when every earlier site has returned, and
\* all_rows changes only when a site returns, by the whole list it returns.
C17_SitesInOrder ==
    /\ [](/\ \A i, j \in DOMAIN calls : i < j => calls[i].site <= calls[j].site
          /\ pc \in {"build", "loop", "sleep"} =>
                /\ si \in 1..NumSites
                /\ Len(hist) = si - 1
                /\ \A i \in DOMAIN calls : calls[i].site <= NEWS_SITES[si]
          /\ pc = "main" => Len(hist) = si - 1)
    /\ [][all_rows' # all_rows =>
            /\ pc \in {"build", "loop"}
            /\ pc = "loop" => ai > Len(articles)
            /\ pc' = "main"
            /\ si' = si + 1
            /\ all_rows' = all_rows \o out
            /\ hist' = Append(hist, hist'[Len(hist')])
            /\ hist'[Len(hist')].rows = out]_vars

\* C17 witness: the second site has an accepted record in out while all_rows
\* still holds exactly the two records the first site returned.
C17_Witness ==
    /\ pc = "loop"
    /\ si = 2
    /\ Len(hist) = 1
    /\ Len(all_rows) = 2
    /\ all_rows = hist[1].rows
    /\ Len(out) = 1

\* C18: whatever fails during discovery, download, parse or enrichment, every
\* site's pipeline returns (hist has an entry for each) and the run reaches
\* the call of save_outputs with the deduplicated rows of all sites.
C18_RunReachesWrite ==
    <>(pc = "save" /\ Len(hist) = NumSites /\ di > Len(all_rows))

\* C18 witness: the run is at the call of save_outputs after a discovery
\* failed and a download failed.
C18_Witness ==
    /\ pc = "save"
    /\ Len(hist) = NumSites
    /\ \E k \in DOMAIN hist : hist[k].disc = "fail"
    /\ \E i \in DOMAIN calls : calls[i].res = "failed" /\ ~calls[i].nlp

\* C19: a candidate passed over for having neither title nor text leaves no
\* trace in the deduplication: every url that some call accepted has a record
\* in deduped, the one of the first site that accepted it, also when an
\* earlier site got nothing usable from that url.
C19_SkippedIsNotSeen ==
    AfterDedup =>
       \A i \in DOMAIN calls :
          (/\ calls[i].res = "accepted"
           /\ \A j \in 1..(i - 1) :
                 calls[j].url = calls[i].url => calls[j].res # "accepted")
             => \E m \in DOMAIN deduped :
                   /\ deduped[m].url = calls[i].url
                   /\ deduped[m].source_url = calls[i].site

\* C19 witness: a url gave neither title nor text on the first site, was
\* accepted on the second, and the run ended with the second site's record.
C19_Witness ==
    /\ pc = "done"
    /\ \E i, j \in DOMAIN calls :
          /\ i < j
          /\ calls[i].url = calls[j].url
          /\ calls[i].res = "empty"
          /\ calls[j].res = "accepted"
          /\ \E m \in DOMAIN deduped :
                deduped[m].url = calls[j].url /\ deduped[m].source_url = calls[j].site

\* The sum of the lengths of the result lists of the sites k..Len(h).
RECURSIVE SumLenFrom(_, _)
SumLenFrom(h, k) ==
    IF k > Len(h) THEN 0 ELSE Len(h[k].rows) + SumLenFrom(h, k + 1)

\* C20: the two counts main prints are the sum of the lengths of the lists
\* the sites returned and the length of deduped, which is the number of
\* distinct urls collected and is not larger than the first count.
C20_ReportedCounts ==
    (report # << >> /\ AfterDedup) =>
       /\ Len(report) = 2
       /\ report[1] = SumLenFrom(hist, 1)
       /\ report[2] = Len(deduped)
       /\ report[2] = Cardinality({all_rows[i].url : i \in DOMAIN all_rows})
       /\ report[2] <= report[1]

\* C20 witness: four records were collected, three remained.
C20_Witness ==
    /\ pc = "done"
    /\ report = <<4, 3>>
    /\ Len(deduped) = 3

====
